---- MODULE Spec2Model ----
(***************************************************************************)
(* Model of the Readwise sync scheduler of src/widgets/index.tsx:          *)
(* onActivate's startup path, the two sync commands, the timer callback    *)
(* and the async function syncHighlights, one action per synchronous       *)
(* block between two awaits.                                               *)
(*                                                                         *)
(* Time is counted in minutes.  Strings are sequences of numbers, numbers  *)
(* carry a NaN flag, so that toISOString / Date parsing / NaN arithmetic   *)
(* are computed as JavaScript computes them.                               *)
(*                                                                         *)
(* Spec leaves the answers of the export service open; SpecRemote runs the *)
(* same actions against a remote book that changes over time.              *)
(***************************************************************************)
EXTENDS Integers, Sequences, FiniteSets, TLC

\* ---------------------------------------------------------------- bounds
MaxCycles == 2      \* syncHighlights invocations in one run
MaxNow == 50        \* horizon of the wall clock, minutes
Tick == 10          \* granularity of the wall clock, minutes

\* 1000 * 60 * 30 ms, in minutes
Interval == 30

\* ---------------------------------------------------------------- values
Undefined == [k |-> "undefined"]
Unread == [k |-> "unread"]
Str(s) == [k |-> "string", s |-> s]
EmptyStr == Str(<<>>)
SomeKey == Str(<<7>>)
Malformed == Str(<<99>>)

Num(v) == [nan |-> FALSE, v |-> v]
NaN == [nan |-> TRUE, v |-> 0]

\* JavaScript truthiness of a string | undefined
Falsy(v) == v = Undefined \/ v = EmptyStr

\* Date.prototype.toISOString of the time t (minutes): "hh:mm"
toISOString(t) == Str(<<t \div 60, t % 60>>)

\* new Date(s).getTime()
DateParse(v) ==
  IF v.k = "string" /\ Len(v.s) = 2 /\ v.s[2] < 60
  THEN Num(v.s[1] * 60 + v.s[2])
  ELSE NaN

\* a - b and a < b on JavaScript numbers
Sub(a, b) == IF a.nan \/ b.nan THEN NaN ELSE Num(a.v - b.v)
Lt(a, b) == ~a.nan /\ ~b.nan /\ a.v < b.v

\* the delay setTimeout really waits: NaN and negatives count as 0
EffDelay(d) == IF d.nan \/ d.v < 0 THEN 0 ELSE d.v

\* ----------------------------------------------------------------- state
VARIABLES
  now,        \* wall clock
  apiKey,     \* plugin.settings: settings.apiKey
  storage,    \* plugin.storage synced: storage.lastSync (the cursor)
  timeout,    \* let timeout (line 67): a timer id, 0 = undefined
  timers,     \* pending setTimeout timers
  activated,  \* onActivate has run its last statement
  cycles,     \* the syncHighlights invocations, in order of their start
  changes     \* Readwise: the times at which the remote book was changed

vars == <<now, apiKey, storage, timeout, timers, activated, cycles, changes>>

BootTime == Interval + Tick
\* the record versions the export API can return, named by their change time
Records == {BootTime}

\* cursors the synced storage may hold at activation: absent, malformed,
\* older than / exactly / younger than the interval, and ahead of the clock
InitCursors ==
  {Undefined, Malformed,
   toISOString(BootTime - Interval - Tick), toISOString(BootTime - Interval),
   toISOString(BootTime - Tick), toISOString(BootTime + Tick)}

KeyValues == {Undefined, EmptyStr, SomeKey}

\* opts of syncHighlights; a missing flag reads as undefined, i.e. false
Opts(i, n) == [defined |-> TRUE, ignoreLastSync |-> i, notify |-> n]
NoOpts == [defined |-> FALSE, ignoreLastSync |-> FALSE, notify |-> FALSE]

Pending == [success |-> FALSE, error |-> "pending", data |-> {}]
Success(d) == [success |-> TRUE, error |-> "none", data |-> d]
Failure(e) == [success |-> FALSE, error |-> e, data |-> {}]
FetchResults ==
  {Success(d) : d \in SUBSET Records} \cup {Failure("auth"), Failure("other")}

Init ==
  /\ now = BootTime
  /\ apiKey \in KeyValues
  /\ storage \in InitCursors
  /\ timeout = 0
  /\ timers = {}
  /\ activated = FALSE
  /\ cycles = <<>>
  /\ changes = {}

\* ------------------------------------------------------ timers, lines 121-122
ClearTimeout(h, ts) == {t \in ts : t.id # h}

\* the handle setTimeout returns is unique: one per caller (0 = startup, i = cycle i)
Timer(d, by) == [id |-> by + 1, delay |-> d, due |-> now + EffDelay(d), by |-> by]

\* clearTimeout(timeout); setTimeout(syncHighlights, d)
SetTimer(d, by) ==
  /\ timers' = ClearTimeout(timeout, timers) \cup {Timer(d, by)}
  /\ UNCHANGED timeout

\* ------------------------------------------------------------ syncHighlights
NewCycle(trigger, opts) ==
  [trigger |-> trigger, opts |-> opts, pc |-> "getSetting", status |-> "running",
   key |-> Unread, lastSync |-> Unread, fetched |-> FALSE, since |-> Unread,
   result |-> Pending, imports |-> 0, imported |-> {},
   reads |-> 0, writes |-> 0, setOk |-> TRUE,
   toasts |-> <<>>, caught |-> FALSE, timer |-> 0]

\* the call of syncHighlights up to its first await (line 70)
StartCycle(trigger, opts) ==
  /\ Len(cycles) < MaxCycles
  /\ cycles' = Append(cycles, NewCycle(trigger, opts))

Running(i) == i \in 1..Len(cycles) /\ cycles[i].status = "running"

Put(i, c) == cycles' = [cycles EXCEPT ![i] = c]

Toast(c, msg) == [c EXCEPT !.toasts = Append(@, msg)]

\* the notify test dropped: the status messages are always shown
ToastAlways(c, msg) == Toast(c, msg)

\* if (opts.notify) plugin.app.toast(msg), lines 87-89, 93-95, 99-101
ToastIf(c, msg) == IF c.opts.notify THEN Toast(c, msg) ELSE c

\* the gate testing for undefined only: an empty key passes
NoApiKeyUndefinedOnly(v) == v = Undefined

\* the line-71 condition
NoApiKey(v) == Falsy(v)

\* the ignoreLastSync flag dropped: "sync all" reads the cursor too
IgnoresCursorNever(opts) == FALSE

\* the line-77 condition
IgnoresCursor(opts) == opts.ignoreLastSync

\* the success test dropped: a failed fetch advances the cursor too
AdvancesCursorAlways(result) == TRUE

\* the emptiness test dropped: the import is called for an empty list too
HasBooksAlways(data) == TRUE

\* the line-84 condition
HasBooks(data) == data # {}

\* the line-82 condition
AdvancesCursor(result) == result.success

\* the stamp cut to the hour
StampHourOnly(t) == toISOString(t - (t % 60))

\* new Date().toISOString() of line 103
Stamp(t) == toISOString(t)

\* an exception outside the try block: the promise rejects
Reject(i, c) ==
  /\ Put(i, [c EXCEPT !.pc = "done", !.status = "rejected"])
  /\ UNCHANGED <<timers, timeout, storage>>

\* a return that is not inside the try block (line 75)
ReturnOutsideTry(i, c) ==
  /\ Put(i, [c EXCEPT !.pc = "done", !.status = "returned"])
  /\ UNCHANGED <<timers, timeout, storage>>

\* leaving the try block: the finally of lines 120-123, then the return
Finally(i, c) ==
  /\ Put(i, [c EXCEPT !.pc = "done", !.status = "returned", !.timer = i + 1])
  /\ SetTimer(Num(Interval), i)
  /\ UNCHANGED storage

\* the catch of lines 117-119, then the finally
Catch(i, c) == Finally(i, Toast([c EXCEPT !.caught = TRUE], "failed"))

\* line 81: getReadwiseExportsSince(apiKey, lastSync) is called and awaited
CallFetch(i, c, lastSync) ==
  /\ Put(i, [c EXCEPT !.pc = "fetch", !.lastSync = lastSync,
                      !.fetched = TRUE, !.since = lastSync])
  /\ UNCHANGED <<timers, timeout, storage>>

\* line 103: setSynced(lastSync, new Date().toISOString()) is called and awaited
CallSetSynced(i, c, ok) ==
  /\ Put(i, [c EXCEPT !.pc = "setSynced", !.setOk = ok,
                      !.writes = IF ok THEN @ + 1 ELSE @])
  /\ storage' = IF ok THEN Stamp(now) ELSE storage
  /\ UNCHANGED <<timers, timeout>>

\* lines 70-79: getSetting has settled
AfterGetSetting(i) ==
  /\ Running(i) /\ cycles[i].pc = "getSetting"
  /\ UNCHANGED <<now, apiKey, activated, changes>>
  /\ \E ok \in BOOLEAN :
       LET c == [cycles[i] EXCEPT !.key = apiKey] IN
       IF ~ok THEN Reject(i, cycles[i])
       ELSE IF NoApiKey(apiKey) THEN ReturnOutsideTry(i, Toast(c, "noKey"))
       ELSE IF ~c.opts.defined THEN Reject(i, c)
       ELSE IF IgnoresCursor(c.opts) THEN CallFetch(i, c, Undefined)
       ELSE /\ Put(i, [c EXCEPT !.pc = "getSynced"])
            /\ UNCHANGED <<timers, timeout, storage>>

\* lines 79-81: getSynced has settled
AfterGetSynced(i) ==
  /\ Running(i) /\ cycles[i].pc = "getSynced"
  /\ UNCHANGED <<now, apiKey, activated, changes>>
  /\ \E ok \in BOOLEAN :
       IF ~ok THEN Reject(i, cycles[i])
       ELSE CallFetch(i, [cycles[i] EXCEPT !.reads = @ + 1], storage)

\* lines 81-116: the fetch has resolved with r
FetchResolved(i, r) ==
  /\ Running(i) /\ cycles[i].pc = "fetch"
  /\ UNCHANGED <<now, apiKey, activated, changes>>
  /\ LET c == [cycles[i] EXCEPT !.result = r] IN
     IF AdvancesCursor(r) THEN
       IF HasBooks(r.data) THEN
         /\ Put(i, [ToastIf(c, "importing") EXCEPT
                      !.pc = "import", !.imports = @ + 1, !.imported = r.data])
         /\ UNCHANGED <<timers, timeout, storage>>
       ELSE \E ok \in BOOLEAN : CallSetSynced(i, ToastIf(c, "nothing"), ok)
     ELSE IF r.error = "auth" THEN Finally(i, Toast(c, "invalidKey"))
     ELSE Finally(i, Toast(c, "fetchFailed"))

\* line 81 throws
FetchThrew(i) ==
  /\ Running(i) /\ cycles[i].pc = "fetch"
  /\ UNCHANGED <<now, apiKey, activated, changes>>
  /\ Catch(i, cycles[i])

\* lines 90-103: the import has returned
ImportResolved(i) ==
  /\ Running(i) /\ cycles[i].pc = "import"
  /\ UNCHANGED <<now, apiKey, activated, changes>>
  /\ \E ok \in BOOLEAN : CallSetSynced(i, ToastIf(cycles[i], "finished"), ok)

\* line 90 throws
ImportThrew(i) ==
  /\ Running(i) /\ cycles[i].pc = "import"
  /\ UNCHANGED <<now, apiKey, activated, changes>>
  /\ Catch(i, cycles[i])

\* line 103 has settled
AfterSetSynced(i) ==
  /\ Running(i) /\ cycles[i].pc = "setSynced"
  /\ UNCHANGED <<now, apiKey, activated, changes>>
  /\ IF cycles[i].setOk THEN Finally(i, cycles[i]) ELSE Catch(i, cycles[i])

\* ------------------------------------------------------------------ callers
\* lines 131-133
SyncLatest ==
  /\ StartCycle("latest", Opts(FALSE, TRUE))
  /\ UNCHANGED <<now, apiKey, storage, timeout, timers, activated, changes>>

\* lines 141-143
SyncAll ==
  /\ StartCycle("all", Opts(TRUE, TRUE))
  /\ UNCHANGED <<now, apiKey, storage, timeout, timers, activated, changes>>

\* a setTimeout timer is due: syncHighlights is called with no argument
TimerFires(t) ==
  /\ t \in timers /\ t.due <= now
  /\ timers' = timers \ {t}
  /\ StartCycle("timer", NoOpts)
  /\ UNCHANGED <<now, apiKey, storage, timeout, activated, changes>>

\* the line-147 condition
IsStale(lastSync, t) ==
  Falsy(lastSync) \/ Lt(DateParse(lastSync), Sub(Num(t), Num(Interval)))

\* a fresh interval whatever the age of the cursor
StartupDelayFresh(lastSync, t) == Num(Interval)

\* the line-151 delay
StartupDelay(lastSync, t) ==
  Sub(Num(Interval), Sub(Num(t), DateParse(lastSync)))

\* lines 146-152
Startup ==
  /\ ~activated
  /\ activated' = TRUE
  /\ UNCHANGED <<now, apiKey, storage, changes>>
  /\ IF IsStale(storage, now)
     THEN /\ StartCycle("startup", Opts(FALSE, FALSE))
          /\ UNCHANGED <<timeout, timers>>
     ELSE /\ SetTimer(StartupDelay(storage, now), 0)
          /\ UNCHANGED cycles

\* ---------------------------------------------------------------- environment
ClockTick ==
  /\ now + Tick <= MaxNow
  /\ now' = now + Tick
  /\ UNCHANGED <<apiKey, storage, timeout, timers, activated, cycles, changes>>

\* the user edits the API key setting
SetApiKey(v) ==
  /\ v \in {EmptyStr, SomeKey} /\ v # apiKey
  /\ apiKey' = v
  /\ UNCHANGED <<now, storage, timeout, timers, activated, cycles, changes>>

Next ==
  \/ Startup
  \/ SyncLatest
  \/ SyncAll
  \/ \E t \in timers : TimerFires(t)
  \/ \E i \in 1..MaxCycles : AfterGetSetting(i)
  \/ \E i \in 1..MaxCycles : AfterGetSynced(i)
  \/ \E i \in 1..MaxCycles : \E r \in FetchResults : FetchResolved(i, r)
  \/ \E i \in 1..MaxCycles : FetchThrew(i)
  \/ \E i \in 1..MaxCycles : ImportResolved(i)
  \/ \E i \in 1..MaxCycles : ImportThrew(i)
  \/ \E i \in 1..MaxCycles : AfterSetSynced(i)
  \/ ClockTick
  \/ \E v \in {EmptyStr, SomeKey} : SetApiKey(v)

Spec == Init /\ [][Next]_vars

TypeOK ==
  /\ now \in (BootTime - Tick)..MaxNow
  /\ apiKey \in KeyValues
  /\ timeout = 0
  /\ Len(cycles) <= MaxCycles

\* ------------------------------------------------- the remote export service
\* The fetch of lib/readwise answers with the record versions changed at or
\* after since, all of them when since is undefined.
Export(since) ==
  Success({t \in changes : since = Undefined \/ t >= DateParse(since).v})

\* what a pending fetch of cycle i can resolve with
ExportResults(i) ==
  {Export(cycles[i].since), Failure("auth"), Failure("other")}

\* the user highlights something: the remote book changes at the current time
RemoteChange ==
  /\ now \notin changes
  /\ changes' = changes \cup {now}
  /\ UNCHANGED <<now, apiKey, storage, timeout, timers, activated, cycles>>

\* first activation with an API key set, one tick before BootTime so that a
\* fetch, a remote change and a cursor write can fall on three different times
InitRemote ==
  /\ now = BootTime - Tick
  /\ apiKey = SomeKey
  /\ storage = Undefined
  /\ timeout = 0
  /\ timers = {}
  /\ activated = FALSE
  /\ cycles = <<>>
  /\ changes = {}

\* the plugin against the export service; no timer falls due within MaxNow
NextRemote ==
  \/ Startup
  \/ SyncLatest
  \/ SyncAll
  \/ \E i \in 1..MaxCycles : AfterGetSetting(i)
  \/ \E i \in 1..MaxCycles : AfterGetSynced(i)
  \/ \E i \in DOMAIN cycles : \E r \in ExportResults(i) : FetchResolved(i, r)
  \/ \E i \in 1..MaxCycles : FetchThrew(i)
  \/ \E i \in 1..MaxCycles : ImportResolved(i)
  \/ \E i \in 1..MaxCycles : ImportThrew(i)
  \/ \E i \in 1..MaxCycles : AfterSetSynced(i)
  \/ ClockTick
  \/ RemoteChange

SpecRemote == InitRemote /\ [][NextRemote]_vars

\* ------------------------------------------------------------------- claims
Cycles == 1..Len(cycles)
Ended(i) == cycles[i].pc = "done"
KeyRead(i) == cycles[i].key # Unread
KeyMissing(i) == cycles[i].key \in {Undefined, EmptyStr}
Failures == {Failure("auth"), Failure("other")}
IsTimestamp(v) == ~DateParse(v).nan

\* cycle i takes this step
Steps(i) == i \in DOMAIN cycles /\ cycles'[i] # cycles[i]

\* C1: at most one scheduled, not yet fired next-cycle timer is pending in
\* every reachable state.
SinglePendingTimer == Cardinality(timers) <= 1

\* C2: every invocation of syncHighlights that has ended, by whatever exit,
\* has scheduled a next-cycle timer of 30 minutes.
UnconditionalRearm ==
  [][\A i \in DOMAIN cycles :
       Steps(i) /\ cycles'[i].pc = "done" =>
         \E t \in timers' \ timers : t.by = i /\ t.delay = Num(Interval)]_vars

\* C3: a timer-started cycle that finds an API key reaches the fetch and ends
\* by scheduling the next timer, so that automatic cycles recur.
TimerCycleRecurs ==
  \A i \in Cycles :
    cycles[i].trigger = "timer" /\ KeyRead(i) /\ ~KeyMissing(i) /\ Ended(i) =>
      cycles[i].fetched /\ cycles[i].timer # 0

\* C4: at most one cycle is in flight (started and not yet returned) in every
\* reachable state.
AtMostOneInFlight == Cardinality({i \in Cycles : cycles[i].status = "running"}) <= 1

\* C5: no step of a cycle whose fetch outcome is an auth failure or another
\* failure changes the cursor, such a cycle has written the cursor zero times,
\* and every step that changes the cursor is a step of a cycle whose fetch
\* returned success.
NoCursorMutationOnFailure ==
  [][/\ \A i \in DOMAIN cycles :
          Steps(i) /\ cycles'[i].result \in Failures =>
            storage' = storage /\ cycles'[i].writes = 0
     /\ storage' # storage =>
          \E i \in DOMAIN cycles : Steps(i) /\ cycles'[i].result.success]_vars

FailedCycleEnded ==
  \E i \in Cycles : \E j \in Cycles :
    /\ Ended(i) /\ cycles[i].result \in Failures /\ cycles[i].reads = 1
    /\ cycles[j].writes = 1

\* C6: a cycle whose fetch returned success, with or without records, goes on
\* to the cursor write once its import (if any) has returned, the value it
\* writes is the wall-clock time of that moment, and it has written the cursor
\* exactly once when it ends without an exception.
CursorAdvanceOnSuccess ==
  [][\A i \in DOMAIN cycles : Steps(i) =>
       /\ cycles[i].pc = "fetch" /\ cycles'[i].result = Success({}) =>
            cycles'[i].pc = "setSynced"
       /\ cycles[i].pc = "import" /\ ~cycles'[i].caught =>
            cycles'[i].pc = "setSynced"
       /\ cycles[i].pc # "setSynced" /\ cycles'[i].pc = "setSynced"
            /\ cycles'[i].setOk =>
            /\ cycles'[i].result.success
            /\ DateParse(storage') = Num(now)
       /\ cycles'[i].pc = "done" /\ cycles'[i].result.success
            /\ ~cycles'[i].caught =>
            cycles'[i].writes = 1]_vars

CursorAdvanced ==
  \E i \in Cycles : \E j \in Cycles :
    /\ Ended(i) /\ cycles[i].result = Success(Records) /\ cycles[i].writes = 1
    /\ cycles[i].opts.ignoreLastSync
    /\ cycles[j].pc = "setSynced" /\ cycles[j].result = Success({})
    /\ ~cycles[j].opts.ignoreLastSync /\ cycles[j].setOk
    /\ storage = toISOString(BootTime + Tick)

\* C7: a cycle started by "sync all" calls the fetch with since = undefined;
\* a cycle started by "sync latest", by startup or by the timer calls it with
\* since = the stored cursor when that is a timestamp and with undefined when
\* the cursor is absent.
WindowCorrectness ==
  [][\A i \in DOMAIN cycles :
       Steps(i) /\ cycles[i].pc # "fetch" /\ cycles'[i].pc = "fetch" =>
         /\ cycles'[i].fetched
         /\ cycles[i].trigger = "all" => cycles'[i].since = Undefined
         /\ cycles[i].trigger # "all" /\ storage = Undefined =>
              cycles'[i].since = Undefined
         /\ cycles[i].trigger # "all" /\ IsTimestamp(storage) =>
              cycles'[i].since = storage]_vars

WindowsFetched ==
  \E i \in Cycles : \E j \in Cycles :
    /\ cycles[i].trigger = "all" /\ cycles[i].fetched
    /\ cycles[i].since = Undefined /\ IsTimestamp(storage)
    /\ cycles[j].trigger = "latest" /\ cycles[j].fetched
    /\ IsTimestamp(cycles[j].since)

\* C8: a cycle that read an absent or empty API key has toasted "no API key"
\* and nothing else, has called neither the fetch nor the import, has neither
\* read nor written the cursor, and has returned normally.
CredentialGate ==
  \A i \in Cycles :
    KeyRead(i) /\ KeyMissing(i) =>
      /\ Ended(i) /\ cycles[i].status = "returned"
      /\ cycles[i].toasts = <<"noKey">>
      /\ ~cycles[i].fetched /\ cycles[i].imports = 0
      /\ cycles[i].reads = 0 /\ cycles[i].writes = 0

GateClosed ==
  \E i \in Cycles : \E j \in Cycles :
    /\ cycles[i].key = EmptyStr /\ cycles[i].trigger = "latest"
    /\ cycles[j].key = Undefined /\ cycles[j].trigger = "startup"

\* C9: a cycle that stopped at the credential gate because the API key is
\* absent or empty has scheduled a next-cycle timer when it returns.
RearmAfterMissingKey ==
  \A i \in Cycles :
    KeyRead(i) /\ KeyMissing(i) /\ Ended(i) => cycles[i].timer # 0

\* C10: the last statement of onActivate starts exactly one cycle and schedules
\* no timer when the cursor is absent or older than the interval; otherwise it
\* starts no cycle and schedules exactly one timer, of delay
\* interval - (now - cursorTime).
StartupPolicy ==
  [][~activated /\ activated' =>
       LET t == DateParse(storage) IN
       IF storage = Undefined \/ (~t.nan /\ now - t.v > Interval)
       THEN /\ Len(cycles') = Len(cycles) + 1
            /\ \A i \in DOMAIN cycles : cycles'[i] = cycles[i]
            /\ cycles'[Len(cycles')].trigger = "startup"
            /\ cycles'[Len(cycles')].status = "running"
            /\ timers' = timers
       ELSE /\ cycles' = cycles
            /\ \E x \in timers' :
                 /\ x \notin timers /\ timers' = timers \cup {x}
                 /\ x.delay = IF t.nan THEN NaN ELSE Num(Interval - (now - t.v))]_vars

StartupScheduled ==
  /\ activated
  /\ \E x \in timers : x.by = 0 /\ x.delay = Num(Interval - Tick)
                         /\ x.due = BootTime + Interval - Tick

\* C11: when a timer fires and starts a cycle, at least the interval has
\* passed since the end of every cycle whose re-arm timer is still pending
\* (that cycle ended at due - Interval), so a timer pending when a later cycle
\* ended does not fire early.
NoEarlyAutomaticCycle ==
  [][\A t \in timers :
       t \notin timers' /\ Len(cycles') = Len(cycles) + 1 =>
         \A x \in timers' : x.by >= 1 => now >= x.due]_vars

\* C12: no invocation of syncHighlights ends rejected: an exception at any
\* step is caught, toasted as a generic failure and the call returns normally
\* without having written the cursor.
NoErrorEscapes ==
  \A i \in Cycles :
    /\ cycles[i].status # "rejected"
    /\ cycles[i].caught =>
         cycles[i].writes = 0 /\ cycles[i].toasts[Len(cycles[i].toasts)] = "failed"

CursorTime(v) == DateParse(v).v

\* C13: with the stored cursor not ahead of the non-decreasing wall clock, or
\* once this plugin instance has written it, every write to the cursor stores
\* a timestamp, never absent, that is greater than or equal to the timestamp
\* it replaces.
CursorMonotoneBehindClock ==
  [][storage' # storage =>
       /\ IsTimestamp(storage')
       /\ (/\ IsTimestamp(storage)
           /\ \/ CursorTime(storage) <= now
              \/ \E i \in Cycles : cycles[i].writes > 0) =>
            CursorTime(storage') >= CursorTime(storage)]_vars

CursorMovedForward ==
  \E i \in Cycles :
    /\ cycles[i].writes = 1 /\ IsTimestamp(cycles[i].since)
    /\ CursorTime(cycles[i].since) < CursorTime(storage)
    /\ CursorTime(storage) = now

\* C14: no reader acts on a malformed cursor: every fetch is called with
\* since = undefined or a timestamp, and the startup path never computes a
\* timer delay from a value that is not a timestamp.
MalformedCursorIsAbsent ==
  /\ \A i \in Cycles :
       cycles[i].fetched =>
         cycles[i].since = Undefined \/ IsTimestamp(cycles[i].since)
  /\ \A t \in timers : ~t.delay.nan

FailureToasts == {"noKey", "invalidKey", "fetchFailed", "failed"}
LastToast(c) == c.toasts[Len(c.toasts)]

\* C15: a cycle without notify shows no status message of a successful
\* outcome; the failure messages (no key, invalid key, fetch failure, caught
\* exception) are shown whatever notify is; a cycle with notify shows "nothing
\* to import" on an empty success and "importing" then "finished" around the
\* import on a non-empty one.
NotificationPolicy ==
  \A i \in Cycles :
    LET c == cycles[i] IN
    /\ ~c.opts.notify =>
         /\ \A k \in 1..Len(c.toasts) : c.toasts[k] \in FailureToasts
         /\ c.result.success /\ ~c.caught => c.toasts = <<>>
    /\ KeyRead(i) /\ KeyMissing(i) => c.toasts = <<"noKey">>
    /\ c.result = Failure("auth") => c.toasts = <<"invalidKey">>
    /\ c.result = Failure("other") => c.toasts = <<"fetchFailed">>
    /\ c.caught => LastToast(c) = "failed"
    /\ c.opts.notify /\ c.result = Success({}) =>
         c.toasts = IF c.caught THEN <<"nothing", "failed">> ELSE <<"nothing">>
    /\ c.opts.notify /\ c.result.success /\ c.result.data # {} =>
         /\ c.pc = "import" => c.toasts = <<"importing">>
         /\ c.pc = "setSynced" => c.toasts = <<"importing", "finished">>
         /\ c.pc = "done" /\ ~c.caught => c.toasts = <<"importing", "finished">>
         /\ c.pc = "done" /\ c.caught =>
              c.toasts \in {<<"importing", "failed">>,
                            <<"importing", "finished", "failed">>}

SilentAndNotified ==
  \E i \in Cycles : \E j \in Cycles :
    /\ cycles[i].trigger = "startup" /\ Ended(i)
    /\ cycles[i].result = Success(Records) /\ cycles[i].toasts = <<>>
    /\ cycles[j].trigger = "latest" /\ Ended(j)
    /\ cycles[j].toasts = <<"importing", "finished">>

\* C17: a cycle calls the import at most once, exactly when its fetch returned
\* success with a non-empty list, right at that return and with the records
\* fetched; it writes the cursor only at the return of that import; and when
\* the import throws it ends without writing the cursor.
ImportBeforeAdvance ==
  [][\A i \in DOMAIN cycles : Steps(i) =>
       LET c == cycles[i]
           d == cycles'[i] IN
       /\ d.imports <= 1
       /\ d.imports = 1 <=> (d.result.success /\ d.result.data # {})
       /\ d.imports = 1 => d.imported = d.result.data
       /\ d.imports > c.imports => c.pc = "fetch" /\ d.pc = "import"
       /\ d.imports = 1 /\ (d.writes > c.writes \/ storage' # storage) =>
            c.pc = "import"
       /\ c.pc = "import" /\ d.caught =>
            storage' = storage /\ d.writes = 0 /\ d.pc = "done"]_vars

ImportedThenAdvanced ==
  \E i \in Cycles : \E j \in Cycles :
    /\ Ended(i) /\ cycles[i].imports = 1 /\ cycles[i].imported = Records
    /\ cycles[i].writes = 1 /\ ~cycles[i].caught
    /\ Ended(j) /\ cycles[j].imports = 1 /\ cycles[j].writes = 0
    /\ cycles[j].toasts = <<"importing", "failed">>

\* the record versions handed to the import by some cycle
Delivered == UNION {cycles[i].imported : i \in Cycles}

\* the import of cycle i was called and returned normally
ImportReturned(i) ==
  /\ cycles[i].imports = 1
  /\ \/ cycles[i].pc = "setSynced"
     \/ cycles[i].pc = "done" /\ (cycles[i].writes = 1 \/ ~cycles[i].setOk)

\* C16: whenever the cursor holds a timestamp T, every remote change made
\* before T has been handed to the import by some cycle (a change made during
\* the minute T itself is still returned by a fetch with since = T), so no
\* remote change is skipped for good by the incremental cycles that follow.
CursorIsWatermark ==
  IsTimestamp(storage) =>
    \A t \in changes : t < CursorTime(storage) => t \in Delivered

\* C18: two incremental cycles that read the same cursor value, whose imports
\* both returned normally and which both advanced the cursor, have imported no
\* record version in common.
NoDoubleImport ==
  \A i \in Cycles : \A j \in Cycles :
    /\ i < j
    /\ ~cycles[i].opts.ignoreLastSync /\ ~cycles[j].opts.ignoreLastSync
    /\ ImportReturned(i) /\ ImportReturned(j)
    /\ cycles[i].since = cycles[j].since
    /\ cycles[i].writes = 1 /\ cycles[j].writes = 1
    => cycles[i].imported \cap cycles[j].imported = {}

\* C19: the delay of the timer scheduled by the startup path from a parseable
\* cursor lies between 0 and the interval.
StartupDelayBounded ==
  \A t \in timers :
    t.by = 0 /\ ~t.delay.nan => 0 <= t.delay.v /\ t.delay.v <= Interval
====
